---- MODULE Spec2Model ----
(***************************************************************************)
(* Model of the duplicate-removal script immich_duplicates.py (and of its  *)
(* older variant immich-duplicates.py, which is the same run without the   *)
(* --check-manual pass).                                                   *)
(*                                                                         *)
(* Python strings that the code inspects (originalPath, originalFileName)  *)
(* are sequences of one-character strings, so that str.startswith and the  *)
(* lexicographic order used by sorted() are computed and not assumed.      *)
(* An asset is the JSON object the server returns: a record that may or    *)
(* may not have the key "isFavorite".                                      *)
(***************************************************************************)
EXTENDS Integers, Sequences, FiniteSets, TLC

\* Largest number of assets the server holds in a run.
MaxAssets == 3

\* Number of items on a full page of /api/search/metadata (the script asks
\* for "size": 1_000; the model scales the page down).
PageSize == 2

VARIABLES
    args,                        \* parsed command line: dry_run, check_manual (verbose only prints)
    library,                     \* server side: the assets, in the order the server pages them
    pc,                          \* position of the script
    data,                        \* phone_upload_duplicate_ids: the decoded /api/duplicates response
    ids_to_delete,               \* __main__: ids_to_delete
    page,                        \* get_all_assets: page
    all_assets,                  \* get_all_assets / __main__: all_assets
    groups,                      \* the groups matching_file_size_orig_name yielded to the loop
    manual_check_ids_to_delete,  \* __main__: manual_check_ids_to_delete
    http,                        \* every request sent so far, with the response it received
    stdout                       \* what the script printed

vars == <<args, library, pc, data, ids_to_delete, page, all_assets, groups,
          manual_check_ids_to_delete, http, stdout>>

----------------------------------------------------------------------------
(* Strings                                                                 *)

\* "/volume1/photo/Photos"
ext_lib_path ==
    <<"/","v","o","l","u","m","e","1","/","p","h","o","t","o","/","P","h","o","t","o","s">>

\* "/usr/src/app/upload/upload/"
phone_upload_path ==
    <<"/","u","s","r","/","s","r","c","/","a","p","p","/","u","p","l","o","a","d","/",
      "u","p","l","o","a","d","/">>

\* str.startswith(prefix)
startswith(s, prefix) ==
    /\ Len(s) >= Len(prefix)
    /\ \A i \in 1..Len(prefix) : s[i] = prefix[i]

\* ord() of the characters that occur in file names of the model
Ord(c) ==
    CASE c = "." -> 46
      [] c = "a" -> 97
      [] c = "b" -> 98
      [] c = "g" -> 103
      [] c = "j" -> 106
      [] c = "p" -> 112

\* s < t for two Python strings: lexicographic by code point, a proper
\* prefix is smaller.
RECURSIVE StrLess(_, _)
StrLess(s, t) ==
    IF t = <<>> THEN FALSE
    ELSE IF s = <<>> THEN TRUE
    ELSE IF Ord(Head(s)) # Ord(Head(t)) THEN Ord(Head(s)) < Ord(Head(t))
    ELSE StrLess(Tail(s), Tail(t))

----------------------------------------------------------------------------
(* class Asset(dict)                                                       *)

\* dict.get(key, default)
Get(d, key, default) == IF key \in DOMAIN d THEN d[key] ELSE default

file_size(a) == a.exifInfo.fileSizeInByte

orig_name(a) == a.originalFileName

orig_path(a) == a.originalPath

in_external_lib(a) == startswith(orig_path(a), ext_lib_path)

\* Asset.__gt__ that forgets "and not other.get(...)" for two library assets
GtFavoriteOnly(self, other) ==
    IF in_external_lib(self) /\ ~in_external_lib(other) THEN TRUE
    ELSE IF ~in_external_lib(self) /\ in_external_lib(other) THEN FALSE
    ELSE IF in_external_lib(self) /\ in_external_lib(other)
         THEN Get(self, "isFavorite", FALSE)
    ELSE FALSE

\* Asset.__gt__(self, other)
Gt(self, other) ==
    IF in_external_lib(self) /\ ~in_external_lib(other) THEN TRUE
    ELSE IF ~in_external_lib(self) /\ in_external_lib(other) THEN FALSE
    ELSE IF in_external_lib(self) /\ in_external_lib(other)
         THEN Get(self, "isFavorite", FALSE) /\ ~Get(other, "isFavorite", FALSE)
    ELSE FALSE

\* a < b taken for "not a > b"
AssetLtNotGt(a, b) == ~Gt(a, b)

\* a < b for two Assets.  Asset defines no __lt__ and dict.__lt__ answers
\* NotImplemented, so Python evaluates the reflected b.__gt__(a).
AssetLt(a, b) == Gt(b, a)

----------------------------------------------------------------------------
(* sorted(), itertools.groupby                                             *)

\* One insertion of list.sort's binary insertion sort: the position in
\* perm[lo..hi-1] (already sorted) where index x goes; lt[i][j] is the
\* outcome of  item i < item j.
RECURSIVE BinarySearch(_, _, _, _, _)
BinarySearch(perm, x, lo, hi, lt) ==
    IF lo >= hi THEN lo
    ELSE LET p == lo + ((hi - lo) \div 2)
         IN  IF lt[x][perm[p]] THEN BinarySearch(perm, x, lo, p, lt)
             ELSE BinarySearch(perm, x, p + 1, hi, lt)

InsertAt(perm, pos, x) ==
    SubSeq(perm, 1, pos - 1) \o <<x>> \o SubSeq(perm, pos, Len(perm))

\* list.sort over the indices 1..n: the stable order of the indices.
RECURSIVE BinarySort(_, _, _)
BinarySort(perm, n, lt) ==
    IF Len(perm) >= n THEN perm
    ELSE LET x == Len(perm) + 1
         IN  BinarySort(InsertAt(perm, BinarySearch(perm, x, 1, x, lt), x), n, lt)

\* operator.attrgetter(key)(item); the key None of sorted() is the item
attrgetter(key, item) ==
    CASE key = "file_size" -> file_size(item)
      [] key = "orig_name" -> orig_name(item)
      [] key = "None"      -> item

\* x < y for two values of key: integers, strings, Assets
Less(key, x, y) ==
    CASE key = "file_size" -> x < y
      [] key = "orig_name" -> StrLess(x, y)
      [] key = "None"      -> AssetLt(x, y)

\* sorted(iterable, key=key): the keys are computed once, the items are
\* ordered by  key < key.
sorted(iterable, key) ==
    LET n    == Len(iterable)
        ks   == [i \in 1..n |-> attrgetter(key, iterable[i])]
        lt   == [i \in 1..n |-> [j \in 1..n |-> Less(key, ks[i], ks[j])]]
        perm == BinarySort(<<>>, n, lt)
    IN  [i \in 1..n |-> iterable[perm[i]]]

\* itertools.groupby(iterable, key=key): maximal runs of consecutive items
\* with equal key, as records [key, group].
RECURSIVE groupby(_, _)
groupby(iterable, key) ==
    IF iterable = <<>> THEN <<>>
    ELSE LET k    == attrgetter(key, Head(iterable))
             rest == groupby(Tail(iterable), key)
         IN  IF rest # <<>> /\ Head(rest).key = k
             THEN <<[key |-> k, group |-> <<Head(iterable)>> \o Head(rest).group]>>
                  \o Tail(rest)
             ELSE <<[key |-> k, group |-> <<Head(iterable)>>]>> \o rest

sort_groupby(iterable, key) == groupby(sorted(iterable, key), key)

groups_larger_than_n(iterable, n, key) ==
    LET all == sort_groupby(iterable, key)
        big == SelectSeq(all, LAMBDA g : Len(g.group) > n)
    IN  [i \in 1..Len(big) |-> big[i].group]

RECURSIVE Flatten(_)
Flatten(ss) == IF ss = <<>> THEN <<>> ELSE Head(ss) \o Flatten(Tail(ss))

\* Grouping that stops at the file size
matching_file_size(assets) == groups_larger_than_n(assets, 1, "file_size")

matching_file_size_orig_name(assets) ==
    LET bySize == groups_larger_than_n(assets, 1, "file_size")
    IN  Flatten([i \in 1..Len(bySize) |-> groups_larger_than_n(bySize[i], 1, "orig_name")])

----------------------------------------------------------------------------
(* The script's functions                                                  *)

Ids(assets) == [i \in 1..Len(assets) |-> assets[i].id]

\* The same with "or" for "and" in the test of the two lists
DupeIdsEither(dupe) ==
    LET external_lib_assets ==
            SelectSeq(dupe.assets, LAMBDA asset : startswith(asset.originalPath, ext_lib_path))
        phone_upload_assets ==
            SelectSeq(dupe.assets, LAMBDA asset : startswith(asset.originalPath, phone_upload_path))
    IN  IF external_lib_assets # <<>> \/ phone_upload_assets # <<>>
        THEN Ids(phone_upload_assets)
        ELSE <<>>

\* The same yielding every asset of the group
DupeIdsWholeGroup(dupe) ==
    LET external_lib_assets ==
            SelectSeq(dupe.assets, LAMBDA asset : startswith(asset.originalPath, ext_lib_path))
        phone_upload_assets ==
            SelectSeq(dupe.assets, LAMBDA asset : startswith(asset.originalPath, phone_upload_path))
    IN  IF external_lib_assets # <<>> /\ phone_upload_assets # <<>>
        THEN Ids(dupe.assets)
        ELSE <<>>

\* The ids one element of the /api/duplicates response contributes.
DupeIds(dupe) ==
    LET external_lib_assets ==
            SelectSeq(dupe.assets, LAMBDA asset : startswith(asset.originalPath, ext_lib_path))
        phone_upload_assets ==
            SelectSeq(dupe.assets, LAMBDA asset : startswith(asset.originalPath, phone_upload_path))
    IN  IF external_lib_assets # <<>> /\ phone_upload_assets # <<>>
        THEN Ids(phone_upload_assets)
        ELSE <<>>

\* list(phone_upload_duplicate_ids(url)) for the decoded response d
phone_upload_duplicate_ids(d) == Flatten([i \in 1..Len(d) |-> DupeIds(d[i])])

\* sorted(group)[1:]
AllButFirst(group) ==
    LET s == sorted(group, "None")
    IN  SubSeq(s, 2, Len(s))

\* sorted(group)[:-1]
AllButLast(group) ==
    LET s == sorted(group, "None")
    IN  SubSeq(s, 1, Len(s) - 1)

\* The ids the --check-manual loop appends for the yielded groups gs.
ManualIds(gs) == Flatten([i \in 1..Len(gs) |-> Ids(AllButLast(gs[i]))])

\* requests raise_for_status(): an HTTPError for a 4xx or 5xx status
RaisesForStatus(status) == status >= 400 /\ status < 600

----------------------------------------------------------------------------
(* What the server can hold and answer                                     *)

\* "/volume1/photo/Photos/a"
ExtFile == ext_lib_path \o <<"/", "a">>

\* "/usr/src/app/upload/upload/a"
PhoneFile == phone_upload_path \o <<"a">>

\* "/usr/src/app/upload/lib/a": under neither prefix
OtherFile == SubSeq(phone_upload_path, 1, 20) \o <<"l", "i", "b", "/", "a">>

Paths == {ExtFile, PhoneFile, OtherFile}

NameA == <<"a", ".", "j", "p", "g">>

NameB == <<"b", ".", "j", "p", "g">>

\* isFavorite as the server sends it; "absent" is a response without the key
Favorites == {"true", "false", "absent"}

\* <<<<originalPath, isFavorite>>, <<fileSizeInByte, originalFileName>>>> of
\* the assets of a run: external-library assets favorited or not and phone
\* uploads, with three (size, name) pairs of which two share the size and
\* two share the name.
Profiles ==
    {<<ExtFile, "true">>, <<ExtFile, "false">>, <<PhoneFile, "absent">>}
        \X {<<100, NameA>>, <<100, NameB>>, <<200, NameA>>}

\* The same for runs over assets of one size and name: every path with every
\* isFavorite.
SameKeyProfiles == (Paths \X Favorites) \X {<<100, NameA>>}

\* The same for runs in which only the number of assets matters.
PagingProfiles == {<<ExtFile, "false">>, <<PhoneFile, "absent">>} \X {<<100, NameA>>}

MkAsset(i, pr) ==
    LET base == [id |-> i, originalPath |-> pr[1][1], originalFileName |-> pr[2][2],
                 exifInfo |-> [fileSizeInByte |-> pr[2][1]]]
    IN  IF pr[1][2] = "absent" THEN base
        ELSE [k \in DOMAIN base \cup {"isFavorite"} |->
                 IF k = "isFavorite" THEN pr[1][2] = "true" ELSE base[k]]

\* The asset lists of the given lengths a server can hold: ids are unique.
Libraries(profiles, lens) ==
    UNION {{[i \in 1..n |-> MkAsset(i, f[i])] : f \in [1..n -> profiles]} : n \in lens}

Min(a, b) == IF a < b THEN a ELSE b

\* Sets of positions as an increasing sequence
RECURSIVE SetToSeq(_)
SetToSeq(S) ==
    IF S = {} THEN <<>>
    ELSE LET m == CHOOSE x \in S : \A y \in S : x <= y
         IN  <<m>> \o SetToSeq(S \ {m})

RECURSIVE SetOfSetsToSeq(_)
SetOfSetsToSeq(P) ==
    IF P = {} THEN <<>>
    ELSE LET g == CHOOSE x \in P : \A y \in P : SetToSeq(x)[1] <= SetToSeq(y)[1]
         IN  <<g>> \o SetOfSetsToSeq(P \ {g})

\* The ways to put some of n positions into disjoint groups of two or more,
\* each a sequence of groups, a group an increasing sequence of positions.
Groupings ==
    [n \in 0..MaxAssets |->
        LET cand  == {S \in SUBSET (1..n) : Cardinality(S) >= 2}
            parts == {P \in SUBSET cand : \A S, T \in P : S # T => S \cap T = {}}
        IN  {[k \in 1..Cardinality(P) |-> SetToSeq(SetOfSetsToSeq(P)[k])] : P \in parts}]

\* The /api/duplicates responses for a library: any disjoint groups of two
\* or more of its assets (an asset has one duplicateId at most).
DuplicateResponses(lib) ==
    {[k \in 1..Len(g) |-> [assets |-> [j \in 1..Len(g[k]) |-> lib[g[k][j]]]]] :
        g \in Groupings[Len(lib)]}

\* The items of page p of /api/search/metadata
PageItems(lib, p) ==
    SubSeq(lib, (p - 1) * PageSize + 1, Min(p * PageSize, Len(lib)))

Statuses == {200, 500}

----------------------------------------------------------------------------
(* The run                                                                 *)

InitRun(libs) ==
    /\ args \in [dry_run : BOOLEAN, check_manual : BOOLEAN]
    /\ library \in libs
    /\ pc = "start"
    /\ data = <<>>
    /\ ids_to_delete = <<>>
    /\ page = 0
    /\ all_assets = <<>>
    /\ groups = <<>>
    /\ manual_check_ids_to_delete = <<>>
    /\ http = <<>>
    /\ stdout = <<>>

Init == InitRun(Libraries(Profiles, 0..MaxAssets))

InitSameKey == InitRun(Libraries(SameKeyProfiles, 0..MaxAssets))

InitPaging == InitRun(Libraries(PagingProfiles, 0..MaxAssets))

\* ids_to_delete = list(phone_upload_duplicate_ids(args.url)) and the print.
\* data is the generator's local: it is gone once the list is built.
FetchDuplicates ==
    /\ pc = "start"
    /\ \E d \in DuplicateResponses(library) :
          LET ids == phone_upload_duplicate_ids(d)
          IN  /\ data' = d
              /\ ids_to_delete' = ids
              /\ http' = Append(http, [method |-> "GET", path |-> "/api/duplicates"])
              /\ stdout' = Append(stdout, [text |-> "Duplicate API found", n |-> Len(ids)])
    /\ pc' = "check_manual"
    /\ UNCHANGED <<args, library, page, all_assets, groups, manual_check_ids_to_delete>>

\* if args.check_manual: ... all_assets = get_all_assets(args.url): entry
StartManualCheck ==
    /\ pc = "check_manual"
    /\ args.check_manual
    /\ data' = <<>>
    /\ all_assets' = <<>>
    /\ page' = 1
    /\ manual_check_ids_to_delete' = <<>>
    /\ stdout' = Append(stdout, [text |-> "Fetching asset metadata"])
    /\ pc' = "get_all_assets"
    /\ UNCHANGED <<args, library, ids_to_delete, groups, http>>

\* if args.check_manual: not taken
SkipManualCheck ==
    /\ pc = "check_manual"
    /\ ~args.check_manual
    /\ data' = <<>>
    /\ pc' = "dry_run"
    /\ UNCHANGED <<args, library, ids_to_delete, page, all_assets, groups,
                   manual_check_ids_to_delete, http, stdout>>

\* The loop without "page += 1"
FetchPageSamePage ==
    /\ pc = "get_all_assets"
    /\ \E status \in Statuses, items \in {PageItems(library, page), <<>>} :
          /\ http' = Append(http, [method |-> "POST", path |-> "/api/search/metadata",
                                   page |-> page, status |-> status, ids |-> Ids(items)])
          /\ IF RaisesForStatus(status)
             THEN /\ pc' = "error"
                  /\ UNCHANGED <<all_assets, page>>
             ELSE IF items = <<>>
             THEN /\ pc' = "matching"
                  /\ UNCHANGED <<all_assets, page>>
             ELSE /\ all_assets' = all_assets \o items
                  /\ page' = page
                  /\ pc' = "get_all_assets"
    /\ UNCHANGED <<args, library, data, ids_to_delete, groups, manual_check_ids_to_delete, stdout>>

\* One iteration of get_all_assets' while True.  The server answers the
\* page with a status and with that page's items, or with no items.
FetchPage ==
    /\ pc = "get_all_assets"
    /\ \E status \in Statuses, items \in {PageItems(library, page), <<>>} :
          /\ http' = Append(http, [method |-> "POST", path |-> "/api/search/metadata",
                                   page |-> page, status |-> status, ids |-> Ids(items)])
          /\ IF RaisesForStatus(status)
             THEN /\ pc' = "error"
                  /\ UNCHANGED <<all_assets, page>>
             ELSE IF items = <<>>
             THEN /\ pc' = "matching"
                  /\ UNCHANGED <<all_assets, page>>
             ELSE /\ all_assets' = all_assets \o items
                  /\ page' = page + 1
                  /\ pc' = "get_all_assets"
    /\ UNCHANGED <<args, library, data, ids_to_delete, groups, manual_check_ids_to_delete, stdout>>

\* for group in matching_file_size_orig_name(all_assets): ... ;
\* ids_to_delete.extend(manual_check_ids_to_delete) and the print
ManualCheck ==
    /\ pc = "matching"
    /\ LET yielded == matching_file_size_orig_name(all_assets)
           manual  == ManualIds(yielded)
       IN  /\ groups' = yielded
           /\ manual_check_ids_to_delete' = manual
           /\ ids_to_delete' = ids_to_delete \o manual
           /\ stdout' = Append(stdout,
                  [text |-> "Found dupes with the same file size and original filename",
                   n |-> Len(manual)])
    /\ pc' = "dry_run"
    /\ UNCHANGED <<args, library, data, page, all_assets, http>>

\* if args.dry_run:
DryRun ==
    /\ pc = "dry_run"
    /\ args.dry_run
    /\ stdout' = Append(stdout, [text |-> "Dry run, not deleting"])
    /\ pc' = "done"
    /\ UNCHANGED <<args, library, data, ids_to_delete, page, all_assets, groups,
                   manual_check_ids_to_delete, http>>

\* The delete without the test of args.dry_run
DeleteIdsDespiteDryRun ==
    /\ pc = "dry_run"
    /\ ids_to_delete # <<>>
    /\ \E status \in Statuses :
          http' = Append(http, [method |-> "DELETE", path |-> "/api/assets", force |-> TRUE,
                                ids |-> ids_to_delete, status |-> status])
    /\ stdout' = Append(stdout, [text |-> "Deleted duplicates", n |-> Len(ids_to_delete)])
    /\ pc' = "done"
    /\ UNCHANGED <<args, library, data, ids_to_delete, page, all_assets, groups,
                   manual_check_ids_to_delete>>

\* elif ids_to_delete: delete_ids(args.url, ids_to_delete) and the print.
\* delete_ids returns the response; the caller drops it.
DeleteIds ==
    /\ pc = "dry_run"
    /\ ~args.dry_run
    /\ ids_to_delete # <<>>
    /\ \E status \in Statuses :
          http' = Append(http, [method |-> "DELETE", path |-> "/api/assets", force |-> TRUE,
                                ids |-> ids_to_delete, status |-> status])
    /\ stdout' = Append(stdout, [text |-> "Deleted duplicates", n |-> Len(ids_to_delete)])
    /\ pc' = "done"
    /\ UNCHANGED <<args, library, data, ids_to_delete, page, all_assets, groups,
                   manual_check_ids_to_delete>>

\* else:
NoDuplicates ==
    /\ pc = "dry_run"
    /\ ~args.dry_run
    /\ ids_to_delete = <<>>
    /\ stdout' = Append(stdout, [text |-> "No duplicates to delete"])
    /\ pc' = "done"
    /\ UNCHANGED <<args, library, data, ids_to_delete, page, all_assets, groups,
                   manual_check_ids_to_delete, http>>

Next ==
    \/ FetchDuplicates
    \/ StartManualCheck
    \/ SkipManualCheck
    \/ FetchPage
    \/ ManualCheck
    \/ DryRun
    \/ DeleteIds
    \/ NoDuplicates

Spec == Init /\ [][Next]_vars

\* Runs over assets that all have one size and one name.
SpecSameKey == InitSameKey /\ [][Next]_vars

\* get_all_assets runs in one sequential process and every request it sends
\* is answered: an iteration of its loop that can be taken is taken.
SpecPaging == InitPaging /\ [][Next]_vars /\ WF_vars(FetchPage)

----------------------------------------------------------------------------
(* Properties                                                              *)

Range(seq) == {seq[i] : i \in 1..Len(seq)}

\* How often x occurs in seq
Count(seq, x) == Cardinality({i \in 1..Len(seq) : seq[i] = x})

\* The manual pass has run: groups and manual_check_ids_to_delete are set.
ManualDone == args.check_manual /\ pc \in {"dry_run", "done"}

IsFavorite(a) == "isFavorite" \in DOMAIN a /\ a.isFavorite

\* The rank of an asset: 0 outside the external library, 1 in it and not
\* favorited (isFavorite false or absent), 2 in it and favorited.
Rank(a) ==
    IF ~in_external_lib(a) THEN 0
    ELSE IF IsFavorite(a) THEN 2
    ELSE 1

\* C1: for every two assets a, b of a group the manual pass sorted, a > b
\* holds exactly when rank(a) > rank(b); so an external-library asset is
\* preferred over another one and not vice versa, a favorited one over an
\* unfavorited one inside the library, and equal ranks tie both ways.
C1_PreferenceIsRankOrder ==
    \A i \in 1..Len(groups) : \A a, b \in Range(groups[i]) :
        Gt(a, b) <=> Rank(a) > Rank(b)

\* A sorted group with members of all three ranks, the non-external one
\* with isFavorite set.
C1_Witness ==
    /\ pc = "done"
    /\ \E i \in 1..Len(groups) : \E a, b, c \in Range(groups[i]) :
          /\ Rank(a) = 2 /\ Rank(b) = 1 /\ Rank(c) = 0 /\ IsFavorite(c)
          /\ Gt(a, b) /\ Gt(b, c) /\ ~Gt(c, b)

\* The members of group g whose id the manual pass slated, and the others.
Slated(g) == {a \in Range(g) : a.id \in Range(manual_check_ids_to_delete)}

Kept(g) == Range(g) \ Slated(g)

RECURSIVE SumLenMinusOne(_)
SumLenMinusOne(gs) ==
    IF gs = <<>> THEN 0 ELSE (Len(Head(gs)) - 1) + SumLenMinusOne(Tail(gs))

\* C2: after the manual pass every yielded group of k assets has k-1 of
\* its ids slated, once each, and one member kept; no slated member is
\* preferred over the kept one; the kept one is in the external library if
\* any member is, and a favorited external-library asset if any member is.
C2_KeepOneMostPreferred ==
    ManualDone =>
        /\ Len(manual_check_ids_to_delete) = SumLenMinusOne(groups)
        /\ \A i \in 1..Len(groups) :
              LET g == groups[i]
              IN  /\ Cardinality(Kept(g)) = 1
                  /\ Cardinality(Slated(g)) = Len(g) - 1
                  /\ \A a \in Slated(g) : Count(manual_check_ids_to_delete, a.id) = 1
                  /\ \A k \in Kept(g) :
                        /\ \A a \in Slated(g) : ~Gt(a, k)
                        /\ (\E a \in Range(g) : in_external_lib(a)) => in_external_lib(k)
                        /\ (\E a \in Range(g) : Rank(a) = 2) => Rank(k) = 2

\* A group of three with one member of each rank, resolved.
C2_Witness ==
    /\ pc = "done"
    /\ args.check_manual
    /\ \E i \in 1..Len(groups) :
          /\ Len(groups[i]) = 3
          /\ {Rank(a) : a \in Range(groups[i])} = {0, 1, 2}
          /\ Cardinality(Slated(groups[i])) = 2

\* No member of g is preferred over another one.
Tied(g) == \A a, b \in Range(g) : ~Gt(a, b)

\* C3 as stated: of a fully tied group the manual pass keeps the first
\* member, in the group's order, and slates every later one.
C3_TiedKeepsFirst ==
    ManualDone =>
        \A i \in 1..Len(groups) :
            Tied(groups[i]) =>
                /\ groups[i][1].id \notin Range(manual_check_ids_to_delete)
                /\ \A j \in 2..Len(groups[i]) :
                      groups[i][j].id \in Range(manual_check_ids_to_delete)

\* The position of asset a in the fetched list
PosIn(assets, a) == CHOOSE j \in 1..Len(assets) : assets[j] = a

\* C3 amended: of a fully tied group the manual pass keeps the last member,
\* in the group's order, which is the order of the fetched list, and slates
\* every earlier one.
C3_TiedKeepsLast ==
    ManualDone =>
        \A i \in 1..Len(groups) :
            LET g == groups[i]
            IN  Tied(g) =>
                    /\ g[Len(g)].id \notin Range(manual_check_ids_to_delete)
                    /\ \A j \in 1..(Len(g) - 1) :
                          /\ g[j].id \in Range(manual_check_ids_to_delete)
                          /\ PosIn(all_assets, g[j]) < PosIn(all_assets, g[j + 1])

\* A fully tied group of three, resolved: the first two slated.
C3_Witness ==
    /\ pc = "done"
    /\ args.check_manual
    /\ \E i \in 1..Len(groups) :
          /\ Len(groups[i]) = 3
          /\ Tied(groups[i])
          /\ manual_check_ids_to_delete = <<groups[i][1].id, groups[i][2].id>>

IsPhoneUpload(a) == startswith(a.originalPath, phone_upload_path)

IsExternal(a) == startswith(a.originalPath, ext_lib_path)

\* A duplicate group with an external-library asset and a phone upload
Mixed(dupe) ==
    /\ \E a \in Range(dupe.assets) : IsExternal(a)
    /\ \E a \in Range(dupe.assets) : IsPhoneUpload(a)

\* C4: with the /api/duplicates response in hand, ids_to_delete holds the
\* id of every phone upload of every group that has an external-library
\* asset and a phone upload, once for each such place in the response, and
\* no other id.
C4_PhoneUploadsOfMixedGroups ==
    pc = "check_manual" =>
        /\ \A x \in Range(ids_to_delete) :
              \E i \in 1..Len(data) : \E a \in Range(data[i].assets) :
                  a.id = x /\ IsPhoneUpload(a) /\ ~IsExternal(a) /\ Mixed(data[i])
        /\ \A i \in 1..Len(data) : \A a \in Range(data[i].assets) :
              Count(ids_to_delete, a.id) =
                  Cardinality({k \in 1..Len(data) :
                      /\ Mixed(data[k])
                      /\ \E j \in 1..Len(data[k].assets) :
                            data[k].assets[j].id = a.id /\ IsPhoneUpload(data[k].assets[j])})

\* A response with a group of an external-library asset, a phone upload and
\* an asset under neither prefix: only the phone upload is yielded.
C4_Witness ==
    /\ pc = "check_manual"
    /\ Len(data) = 1
    /\ Len(ids_to_delete) = 1
    /\ \E a, b, c \in Range(data[1].assets) :
          /\ IsExternal(a) /\ IsPhoneUpload(b) /\ ~IsExternal(c) /\ ~IsPhoneUpload(c)
          /\ ids_to_delete = <<b.id>>

SameKey(a, b) == file_size(a) = file_size(b) /\ orig_name(a) = orig_name(b)

\* C5: the yielded groups are the classes of (file size, file name) among
\* the fetched assets that have two members or more: each group has two or
\* more fetched assets of one size and one name, each once; no asset is in
\* two groups; two fetched assets of equal size and name are in one group;
\* an asset without such a partner is in none.
C5_GroupsAreKeyClasses ==
    ManualDone =>
        /\ \A i \in 1..Len(groups) :
              /\ Len(groups[i]) >= 2
              /\ Cardinality(Range(groups[i])) = Len(groups[i])
              /\ Range(groups[i]) \subseteq Range(all_assets)
              /\ \A a, b \in Range(groups[i]) : SameKey(a, b)
        /\ \A i, j \in 1..Len(groups) :
              i # j => Range(groups[i]) \cap Range(groups[j]) = {}
        /\ \A a, b \in Range(all_assets) :
              (a # b /\ SameKey(a, b)) =>
                  \E i \in 1..Len(groups) : {a, b} \subseteq Range(groups[i])
        /\ \A a \in Range(all_assets) :
              (\A b \in Range(all_assets) : b # a => ~SameKey(a, b)) =>
                  \A i \in 1..Len(groups) : a \notin Range(groups[i])

\* Three fetched assets of one size, two of them of one name: one group of
\* the two.
C5_Witness ==
    /\ pc = "done"
    /\ args.check_manual
    /\ Len(all_assets) = 3
    /\ \A a, b \in Range(all_assets) : file_size(a) = file_size(b)
    /\ Len(groups) = 1
    /\ Len(groups[1]) = 2
    /\ \E a \in Range(all_assets) : a \notin Range(groups[1])

Deletes == SelectSeq(http, LAMBDA r : r.method = "DELETE")

\* C6: a DELETE request is sent only without --dry-run and with an id
\* collected; there is one at most, and it carries the whole ids_to_delete.
C6_DeleteOnlyWhenAsked ==
    /\ Len(Deletes) <= 1
    /\ args.dry_run => Deletes = <<>>
    /\ ids_to_delete = <<>> => Deletes = <<>>
    /\ \A i \in 1..Len(Deletes) :
          /\ Deletes[i].ids = ids_to_delete
          /\ Deletes[i] = http[Len(http)]
          /\ pc = "done"

\* A run with both passes that sent the DELETE with ids of both passes.
C6_Witness ==
    /\ pc = "done"
    /\ args.check_manual
    /\ ~args.dry_run
    /\ Len(Deletes) = 1
    /\ manual_check_ids_to_delete # <<>>
    /\ Len(Deletes[1].ids) > Len(manual_check_ids_to_delete)

Is2xx(status) == status >= 200 /\ status < 300

Printed(text) == \E i \in 1..Len(stdout) : stdout[i].text = text

\* C7 as stated: when a metadata page request or the DELETE request got a
\* status outside 2xx, the run ended in an error right there and did not
\* print that it deleted the duplicates.
C7_FailedRequestIsFatal ==
    \A i \in 1..Len(http) :
        (http[i].method \in {"POST", "DELETE"} /\ ~Is2xx(http[i].status)) =>
            /\ pc = "error"
            /\ i = Len(http)
            /\ ~Printed("Deleted duplicates")

Posts == SelectSeq(http, LAMBDA r : r.method = "POST")

\* The ids the first n metadata responses carried, in order
RECURSIVE PostedIds(_)
PostedIds(n) == IF n = 0 THEN <<>> ELSE PostedIds(n - 1) \o Posts[n].ids

\* The pages were asked for in the order 1, 2, 3, ...; every page before the
\* last one asked for was answered with items; while the loop runs, the next
\* page to ask for follows the last one asked; once get_all_assets returned,
\* the last page asked for was answered without items and all_assets is the
\* items of the pages before it, in page order.
PagingInv ==
    /\ \A i \in 1..Len(Posts) : Posts[i].page = i
    /\ \A i \in 1..(Len(Posts) - 1) : Is2xx(Posts[i].status) /\ Posts[i].ids # <<>>
    /\ pc = "get_all_assets" =>
          /\ page = Len(Posts) + 1
          /\ Ids(all_assets) = PostedIds(Len(Posts))
    /\ pc = "error" => ~Is2xx(Posts[Len(Posts)].status)
    /\ (args.check_manual /\ pc \in {"matching", "dry_run", "done"}) =>
          /\ Posts # <<>>
          /\ Posts[Len(Posts)].ids = <<>>
          /\ Ids(all_assets) = PostedIds(Len(Posts) - 1)
          /\ \A i \in 1..Len(all_assets) : all_assets[i] = library[i]
    /\ ~args.check_manual => Posts = <<>>

\* C8: get_all_assets asks for the pages 1, 2, 3, ... in order, one at a
\* time, stops at the first page without items and returns the items of the
\* pages before it in page order; and it does stop.
C8_PagingInOrderAndEnds ==
    /\ []PagingInv
    /\ [][Len(http') <= Len(http) + 1]_vars
    /\ (pc = "get_all_assets") ~> (pc # "get_all_assets")

\* get_all_assets returned after three requests with the items of two pages.
C8_Witness ==
    /\ pc = "matching"
    /\ Len(Posts) = 3
    /\ Len(all_assets) = MaxAssets
    /\ Posts[3].ids = <<>>

\* The asset an id names
AssetOf(x) == library[x]

\* C9: for every external-library asset whose id is in ids_to_delete there
\* is another external-library asset of the same size and name whose id is
\* not in ids_to_delete, and which is favorited if the former is.
C9_ExternalSurvivorRemains ==
    \A x \in Range(ids_to_delete) :
        in_external_lib(AssetOf(x)) =>
            \E b \in Range(library) :
                /\ b.id # x
                /\ in_external_lib(b)
                /\ SameKey(AssetOf(x), b)
                /\ b.id \notin Range(ids_to_delete)
                /\ IsFavorite(AssetOf(x)) => IsFavorite(b)

\* Both passes collected ids, an external-library asset among them.
C9_Witness ==
    /\ pc = "done"
    /\ args.check_manual
    /\ Len(ids_to_delete) > Len(manual_check_ids_to_delete)
    /\ \E x \in Range(manual_check_ids_to_delete) : Rank(AssetOf(x)) = 2

\* C10 as stated: the id list of the DELETE request has every id once at
\* most.
C10_DeleteIdsDistinct ==
    \A i \in 1..Len(Deletes) :
        \A x \in Range(Deletes[i].ids) : Count(Deletes[i].ids, x) = 1

====
